---- MODULE Spec2Model ----
(***************************************************************************)
(* A model of the Jira MCP server (main.go): the three tool handlers, the  *)
(* JiraClient operations they call and the info://server resource.         *)
(*                                                                         *)
(* A URL (JiraConfig.URL) is a sequence of one-character strings, so that  *)
(* strings.ToLower and strings.Contains are computed, not assumed.  Other  *)
(* texts (keys, summaries, JQL) are strings.  A JSON value is a tagged     *)
(* record: [t |-> "null"], [t |-> "str", s |-> ..], [t |-> "num", n |-> ..]*)
(* [t |-> "arr", a |-> <<..>>], [t |-> "obj", o |-> [names -> values]].    *)
(* A response body is [wf |-> whether its first JSON value is well formed, *)
(* val |-> that value].                                                    *)
(***************************************************************************)
EXTENDS Integers, Sequences, FiniteSets, TLC

VARIABLES
    pc,        \* pc[w]: where worker w stands in its tool handler
    args,      \* args[w]: the arguments of the tool call w handles
    client,    \* client[w]: the JiraClient the handler constructed
    req,       \* req[w]: the http.Request the operation built
    calls,     \* calls[w]: invocations of httpClient.Do in this tool call
    timedOut,  \* timedOut[w]: the stage at which Client.Timeout elapsed
    resp,      \* resp[w]: the upstream response Do returned
    decoded,   \* decoded[w]: json.Decoder read from resp.Body
    ret,       \* ret[w]: what the client operation returned
    out,       \* out[w]: what the handler returned to the protocol layer
    answers,   \* answers[w]: tool responses given for this tool call
    info       \* the last answer of the info://server resource

vars == <<pc, args, client, req, calls, timedOut, resp, decoded, ret, out,
          answers, info>>

----------------------------------------------------------------------------
(* Bounds *)

NumWorkers == 2
MaxIssues == 2

Workers == 1..NumWorkers

----------------------------------------------------------------------------
(* Constants of main.go *)

ServerName == "Jira MCP Server"
ServerVersion == "1.0.0"
ClientTimeout == 10
StatusOK == 200
StatusCreated == 201
StatusNoContent == 204

CloudDomain ==
    <<".", "a", "t", "l", "a", "s", "s", "i", "a", "n", ".", "n", "e", "t">>

----------------------------------------------------------------------------
(* strings.ToLower, strings.Contains *)

UpperCase ==
    <<"A", "B", "C", "D", "E", "F", "G", "H", "I", "J", "K", "L", "M",
      "N", "O", "P", "Q", "R", "S", "T", "U", "V", "W", "X", "Y", "Z">>

LowerCase ==
    <<"a", "b", "c", "d", "e", "f", "g", "h", "i", "j", "k", "l", "m",
      "n", "o", "p", "q", "r", "s", "t", "u", "v", "w", "x", "y", "z">>

ToLowerChar(c) ==
    IF \E i \in 1..Len(UpperCase) : UpperCase[i] = c
    THEN LowerCase[CHOOSE i \in 1..Len(UpperCase) : UpperCase[i] = c]
    ELSE c

ToLower(s) == [i \in 1..Len(s) |-> ToLowerChar(s[i])]

RECURSIVE Index(_, _, _)
\* strings.Index from position i (1-based); -1 when substr does not occur.
Index(s, substr, i) ==
    IF i + Len(substr) - 1 > Len(s) THEN -1
    ELSE IF SubSeq(s, i, i + Len(substr) - 1) = substr THEN i - 1
    ELSE Index(s, substr, i + 1)

Contains(s, substr) == Index(s, substr, 1) >= 0

HasPrefix(s, prefix) ==
    Len(s) >= Len(prefix) /\ SubSeq(s, 1, Len(prefix)) = prefix

----------------------------------------------------------------------------
(* JSON values and encoding/json *)

JNull == [t |-> "null"]
JStr(s) == [t |-> "str", s |-> s]
JNum(n) == [t |-> "num", n |-> n]
JArr(a) == [t |-> "arr", a |-> a]
JObj(o) == [t |-> "obj", o |-> o]

\* Every member name the server marshals, in the byte order json.Marshal
\* sorts map keys in.
KeyOrder ==
    <<"actions", "description", "fields", "issuetype", "key", "name",
      "project", "summary", "version">>

\* json.Marshal's string escaping (HTML-safe), on the texts of the model.
Escape(s) ==
    CASE s = "a<b" -> "a\\u003cb"
      [] s = "say \"hi\"" -> "say \\\"hi\\\""
      [] OTHER -> s

RECURSIVE Marshal(_)
RECURSIVE MarshalElems(_, _)
RECURSIVE MarshalMembers(_, _)

MarshalElems(a, i) ==
    IF i > Len(a) THEN ""
    ELSE (IF i > 1 THEN "," ELSE "") \o Marshal(a[i]) \o MarshalElems(a, i + 1)

MarshalMembers(o, ks) ==
    IF ks = <<>> THEN ""
    ELSE "\"" \o Head(ks) \o "\":" \o Marshal(o[Head(ks)])
         \o (IF Len(ks) > 1 THEN "," ELSE "") \o MarshalMembers(o, Tail(ks))

Marshal(v) ==
    CASE v.t = "null" -> "null"
      [] v.t = "str" -> "\"" \o Escape(v.s) \o "\""
      [] v.t = "arr" -> "[" \o MarshalElems(v.a, 1) \o "]"
      [] v.t = "obj" ->
            "{" \o MarshalMembers(v.o,
                       SelectSeq(KeyOrder, LAMBDA k : k \in DOMAIN v.o)) \o "}"

mustMarshal(v) == Marshal(v)

\* The decoder matches a struct field by its exact name first and then
\* without regard to letter case.
FoldName(k) ==
    CASE k = "Issues" -> "issues"
      [] k = "KEY" -> "key"
      [] OTHER -> k

HasField(o, name) ==
    name \in DOMAIN o \/ \E k \in DOMAIN o : FoldName(k) = name

Field(o, name) ==
    IF name \in DOMAIN o THEN o[name]
    ELSE o[CHOOSE k \in DOMAIN o : FoldName(k) = name]

\* A Go string field: absent or null leaves "", a JSON string sets it, any
\* other value is an UnmarshalTypeError.
DecodeString(o, name) ==
    IF ~HasField(o, name) THEN [ok |-> TRUE, s |-> ""]
    ELSE LET v == Field(o, name) IN
         CASE v.t = "null" -> [ok |-> TRUE, s |-> ""]
           [] v.t = "str" -> [ok |-> TRUE, s |-> v.s]
           [] OTHER -> [ok |-> FALSE, s |-> ""]

----------------------------------------------------------------------------
(* The inputs: tool arguments and upstream responses *)

Http == <<"h", "t", "t", "p", ":", "/", "/">>

\* What follows the host name "j": the Cloud domain in lower, upper and
\* mixed case, near misses of it, a Data Center domain, and the Cloud domain
\* in the path only.
Domains ==
    { CloudDomain,
      <<".", "A", "T", "L", "A", "S", "S", "I", "A", "N", ".", "N", "E", "T">>,
      <<".", "A", "t", "l", "a", "s", "s", "i", "a", "n", ".", "N", "e", "t">>,
      <<".", "a", "t", "l", "a", "s", "s", "i", "a", "n", ".", "n", "e">>,
      <<"a", "t", "l", "a", "s", "s", "i", "a", "n", ".", "n", "e", "t">>,
      <<".", "c", "o", "r", "p">>,
      <<".", "c", "o", "r", "p", "/">> \o CloudDomain }

\* "\n" stands for any ASCII control character.
Tails == { <<>>, <<"/", "x">>, <<"\n">> }

URLs ==
    { Http \o <<"j">> \o d \o t : d \in Domains, t \in Tails }
        \cup { <<>>, <<"j">> \o CloudDomain, Http, Http \o <<"/", "x">> }

Credentials ==
    { [api_key |-> "tokA", email |-> "a@x.io"],
      [api_key |-> "tokB", email |-> "b@y.io"] }

JiraConfig(u, cr) == [url |-> u, api_key |-> cr.api_key, email |-> cr.email]

Configs == { JiraConfig(u, cr) : u \in URLs, cr \in Credentials }

CreateIssueArgs(C) ==
    [tool : {"create_issue"}, jira_config : C, project_key : {"PROJ"},
     summary : {"Fix bug"}, description : {"say \"hi\""},
     issue_type : {"Task"}]

UpdateIssueArgs(C) ==
    [tool : {"update_issue"}, jira_config : C, issue_key : {"PROJ-1"},
     summary : {"", "Fix bug"}, description : {"", "a<b"}]

SearchIssuesArgs(C) ==
    [tool : {"search_issues"}, jira_config : C, jql : {"project=PROJ"}]

ToolArgs == CreateIssueArgs(Configs) \cup UpdateIssueArgs(Configs)
                \cup SearchIssuesArgs(Configs)

Statuses == {200, 201, 204, 400, 500}

NotJSON == [wf |-> FALSE, val |-> JNull]
Body(v) == [wf |-> TRUE, val |-> v]

CreateBodies ==
    { NotJSON, Body(JNull), Body(JArr(<<>>)), Body(JStr("PROJ-7")),
      Body(JObj(<<>>)),
      Body(JObj("key" :> JStr("PROJ-7"))),
      Body(JObj("key" :> JStr(""))),
      Body(JObj("key" :> JNum(7))),
      Body(JObj("key" :> JNull)),
      Body(JObj("KEY" :> JStr("PROJ-7"))),
      Body(JObj(("key" :> JStr("PROJ-8")) @@ ("id" :> JStr("10008")))) }

UpdateBodies ==
    { NotJSON, Body(JObj(<<>>)), Body(JObj("key" :> JStr("OTHER-9"))) }

Issue(k, s) ==
    JObj(("key" :> JStr(k)) @@ ("fields" :> JObj("summary" :> JStr(s))))

UpstreamIssues ==
    { Issue("A-1", "S1"), Issue("B-2", "a<b"),
      JObj(("KEY" :> JStr("D-4")) @@ ("fields" :> JNull)),
      JNull,
      JObj(("key" :> JNum(7)) @@ ("fields" :> JObj("summary" :> JStr("S7")))) }

OddIssues ==
    { JObj("key" :> JStr("C-3")), JStr("E-5"),
      JObj(("key" :> JStr("E-5")) @@ ("fields" :> JObj("summary" :> JNum(5)))),
      JObj(("key" :> JStr("F-6")) @@ ("fields" :> JStr("S6"))),
      JObj("fields" :> JObj("summary" :> JStr("S8"))) }

IssueArrays == UNION { [1..n -> UpstreamIssues] : n \in 0..MaxIssues }

SearchBodies ==
    { NotJSON, Body(JNull), Body(JArr(<<>>)), Body(JObj(<<>>)),
      Body(JObj("total" :> JNum(0))),
      Body(JObj("issues" :> JNull)),
      Body(JObj("issues" :> JStr("none"))),
      Body(JObj("Issues" :> JArr(<<Issue("A-1", "S1")>>))) }
        \cup { Body(JObj("issues" :> JArr(a))) : a \in IssueArrays }
        \cup { Body(JObj(("issues" :> JArr(<<e>>)) @@ ("total" :> JNum(1)))) :
                   e \in OddIssues }

Bodies(tool) ==
    CASE tool = "create_issue" -> CreateBodies
      [] tool = "update_issue" -> UpdateBodies
      [] tool = "search_issues" -> SearchBodies

Tools == {"create_issue", "update_issue", "search_issues"}

Responses == [tool \in Tools |-> [status : Statuses, body : Bodies(tool)]]

----------------------------------------------------------------------------
(* JiraClient *)

\* Mutants of NewJiraClient: a case-sensitive test of the URL, and a client
\* kept from an earlier call and handed to the next.
NewJiraClientCaseSensitive(config) ==
    [config |-> config,
     timeout |-> ClientTimeout,
     isCloud |-> Contains(config.url, CloudDomain)]

NewJiraClientShared(config) ==
    IF \E v \in Workers : "config" \in DOMAIN client[v]
    THEN client[CHOOSE v \in Workers : "config" \in DOMAIN client[v]]
    ELSE [config |-> config,
          timeout |-> ClientTimeout,
          isCloud |-> Contains(ToLower(config.url), CloudDomain)]

NewJiraClient(config) ==
    [config |-> config,
     timeout |-> ClientTimeout,
     isCloud |-> Contains(ToLower(config.url), CloudDomain)]

getBaseAPIPath(c) == IF c.isCloud THEN "/rest/api/3" ELSE "/rest/api/2"

Error(prefix, code, cause) == [prefix |-> prefix, code |-> code, cause |-> cause]

\* http.NewRequest parses the URL: net/url rejects a control character.
NewRequestOK(url) == \A i \in 1..Len(url.base) : url.base[i] # "\n"

\* Client.Do refuses, before any network use, a URL whose scheme is not http
\* or that names no host.
Sendable(url) ==
    /\ HasPrefix(url.base, Http)
    /\ Len(url.base) > Len(Http)
    /\ url.base[Len(Http) + 1] # "/"

createIssuePayload(a) ==
    JObj("fields" :> JObj(
        ("project" :> JObj("key" :> JStr(a.project_key)))
        @@ ("summary" :> JStr(a.summary))
        @@ ("description" :> JStr(a.description))
        @@ ("issuetype" :> JObj("name" :> JStr(a.issue_type)))))

createIssueRequest(c, a) ==
    [method |-> "POST",
     url |-> [base |-> c.config.url, api |-> getBaseAPIPath(c), rest |-> "/issue"],
     body |-> Marshal(createIssuePayload(a)),
     auth |-> IF c.isCloud
              THEN [scheme |-> "Basic", user |-> c.config.email,
                    secret |-> c.config.api_key]
              ELSE [scheme |-> "Bearer", user |-> "", secret |-> c.config.api_key],
     contentType |-> "application/json"]

\* Mutant of updateIssuePayload: the description is sent even when empty.
updateIssuePayloadAlways(a) ==
    JObj("fields" :> JObj(
        (IF a.summary # "" THEN "summary" :> JStr(a.summary) ELSE <<>>)
        @@ ("description" :> JStr(a.description))))

updateIssuePayload(a) ==
    JObj("fields" :> JObj(
        (IF a.summary # "" THEN "summary" :> JStr(a.summary) ELSE <<>>)
        @@ (IF a.description # ""
            THEN "description" :> JStr(a.description) ELSE <<>>)))

updateIssueRequest(c, a) ==
    [method |-> "PUT",
     url |-> [base |-> c.config.url, api |-> getBaseAPIPath(c),
              rest |-> "/issue/" \o a.issue_key],
     body |-> Marshal(updateIssuePayload(a)),
     auth |-> IF c.isCloud
              THEN [scheme |-> "Basic", user |-> c.config.email,
                    secret |-> c.config.api_key]
              ELSE [scheme |-> "Bearer", user |-> "", secret |-> c.config.api_key],
     contentType |-> "application/json"]

searchIssuesRequest(c, a) ==
    [method |-> "GET",
     url |-> [base |-> c.config.url, api |-> getBaseAPIPath(c),
              rest |-> "/search?jql=" \o a.jql \o "&fields=summary"],
     body |-> "",
     auth |-> IF c.isCloud
              THEN [scheme |-> "Basic", user |-> c.config.email,
                    secret |-> c.config.api_key]
              ELSE [scheme |-> "Bearer", user |-> "", secret |-> c.config.api_key],
     contentType |-> "application/json"]

BuildRequest(c, a) ==
    CASE a.tool = "create_issue" -> createIssueRequest(c, a)
      [] a.tool = "update_issue" -> updateIssueRequest(c, a)
      [] a.tool = "search_issues" -> searchIssuesRequest(c, a)

\* What an operation returns: (value, nil) or (zero value, error).
Ok(v) == [st |-> "ok", val |-> v]
Fail(zero, e) == [st |-> "err", val |-> zero, err |-> e]
NoReturn == [st |-> "none"]

ZeroValue(tool) == IF tool = "search_issues" THEN <<>> ELSE ""

\* Mutants of the status tests: any 200 or 201 creates, only 204 updates.
createIssueStatusLoose(status) == status = StatusCreated \/ status = StatusOK

updateIssueStatusStrict(status) == status = StatusNoContent

createIssueStatusOK(status) == status = StatusCreated

updateIssueStatusOK(status) == status = StatusNoContent \/ status = StatusOK

searchIssuesStatusOK(status) == status = StatusOK

StatusAccepted(tool, status) ==
    CASE tool = "create_issue" -> createIssueStatusOK(status)
      [] tool = "update_issue" -> updateIssueStatusOK(status)
      [] tool = "search_issues" -> searchIssuesStatusOK(status)

StatusError(tool, status) ==
    CASE tool = "create_issue" ->
            Error("failed to create issue, status", status, "")
      [] tool = "update_issue" ->
            Error("failed to update issue, status", status, "")
      [] tool = "search_issues" ->
            Error("failed to search issues, status", status, "")

\* createIssue after a 201: decode into map[string]interface{}, then
\* result["key"].(string).
createIssueDecode(body) ==
    IF ~body.wf THEN Fail("", Error("failed to decode response", 0, "invalid JSON"))
    ELSE IF body.val.t \notin {"obj", "null"}
    THEN Fail("", Error("failed to decode response", 0, "cannot unmarshal"))
    ELSE LET result == IF body.val.t = "obj" THEN body.val.o ELSE <<>> IN
         IF "key" \in DOMAIN result /\ result["key"].t = "str"
         THEN Ok(result["key"].s)
         ELSE Fail("", Error("issue key not found in response", 0, ""))

\* One element of the issues array, decoded into the anonymous struct.
DecodeIssue(v) ==
    CASE v.t = "null" -> [ok |-> TRUE, key |-> "", summary |-> ""]
      [] v.t = "obj" ->
            LET k == DecodeString(v.o, "key")
                f == IF HasField(v.o, "fields") THEN Field(v.o, "fields") ELSE JNull
                s == CASE f.t = "null" -> [ok |-> TRUE, s |-> ""]
                       [] f.t = "obj" -> DecodeString(f.o, "summary")
                       [] OTHER -> [ok |-> FALSE, s |-> ""]
            IN [ok |-> k.ok /\ s.ok, key |-> k.s, summary |-> s.s]
      [] OTHER -> [ok |-> FALSE, key |-> "", summary |-> ""]

\* for _, issue := range result.Issues { issues = append(issues, ...) }
ProjectIssuesReversed(Issues) ==
    [i \in 1..Len(Issues) |->
        [key |-> Issues[Len(Issues) + 1 - i].key,
         summary |-> Issues[Len(Issues) + 1 - i].summary]]

ProjectIssues(Issues) ==
    [i \in 1..Len(Issues) |->
        [key |-> Issues[i].key, summary |-> Issues[i].summary]]

\* searchIssues after a 200: decode into the result struct, then project
\* every issue, in order, into {"key", "summary"}.
searchIssuesDecode(body) ==
    IF ~body.wf THEN Fail(<<>>, Error("failed to decode response", 0, "invalid JSON"))
    ELSE IF body.val.t \notin {"obj", "null"}
    THEN Fail(<<>>, Error("failed to decode response", 0, "cannot unmarshal"))
    ELSE LET o == IF body.val.t = "obj" THEN body.val.o ELSE <<>>
             m == IF HasField(o, "issues") THEN Field(o, "issues") ELSE JNull
         IN IF m.t \notin {"arr", "null"}
            THEN Fail(<<>>, Error("failed to decode response", 0, "cannot unmarshal"))
            ELSE LET arr == IF m.t = "arr" THEN m.a ELSE <<>>
                     Issues == [i \in 1..Len(arr) |-> DecodeIssue(arr[i])]
                 IN IF \E i \in 1..Len(arr) : ~Issues[i].ok
                    THEN Fail(<<>>, Error("failed to decode response", 0,
                                          "cannot unmarshal"))
                    ELSE Ok(ProjectIssues(Issues))

DecodeBody(tool, body) ==
    CASE tool = "create_issue" -> createIssueDecode(body)
      [] tool = "search_issues" -> searchIssuesDecode(body)

----------------------------------------------------------------------------
(* The tool handlers and the resource of main() *)

NoOutput == [kind |-> "none"]
ToolError(e) == [kind |-> "error", err |-> e]
ToolResponse(text) == [kind |-> "response", text |-> text]

IssueList(issues) ==
    JArr([i \in 1..Len(issues) |->
            JObj(("key" :> JStr(issues[i].key))
                 @@ ("summary" :> JStr(issues[i].summary)))])

\* Mutant of create_issue: the error is swallowed.
create_issue_swallow(r) == ToolResponse("Created issue: " \o r.val)

create_issue(r) ==
    IF r.st = "err" THEN ToolError(r.err)
    ELSE ToolResponse("Created issue: " \o r.val)

update_issue(r) ==
    IF r.st = "err" THEN ToolError(r.err)
    ELSE ToolResponse("Updated issue: " \o r.val)

search_issues(r) ==
    IF r.st = "err" THEN ToolError(r.err)
    ELSE ToolResponse(mustMarshal(IssueList(r.val)))

HandlerResult(tool, r) ==
    CASE tool = "create_issue" -> create_issue(r)
      [] tool = "update_issue" -> update_issue(r)
      [] tool = "search_issues" -> search_issues(r)

\* Mutant of ServerInfo: the actions in alphabetical order.
ServerInfoSorted ==
    JObj(("name" :> JStr(ServerName))
         @@ ("version" :> JStr(ServerVersion))
         @@ ("actions" :> JArr(<<JStr("create_issue"), JStr("search_issues"),
                                 JStr("update_issue")>>)))

ServerInfo ==
    JObj(("name" :> JStr(ServerName))
         @@ ("version" :> JStr(ServerVersion))
         @@ ("actions" :> JArr(<<JStr("create_issue"), JStr("update_issue"),
                                 JStr("search_issues")>>)))

InfoResource ==
    [uri |-> "info://server", mimeType |-> "application/json",
     text |-> mustMarshal(ServerInfo)]

----------------------------------------------------------------------------
(* The state machine.  A worker is one goroutine of the transport serving   *)
(* one tool call; its handler runs                                          *)
(*   handler -> build -> do -> connecting -> headers -> status -> body      *)
(*           -> return -> done                                              *)
(* and leaves early wherever the code returns early.                        *)

NoArgs == [tool |-> "none"]
NoClient == [isCloud |-> FALSE, none |-> TRUE]
NoRequest == [method |-> "none"]
NoResponse == [status |-> 0, body |-> NotJSON]

Init ==
    /\ pc = [w \in Workers |-> "idle"]
    /\ args = [w \in Workers |-> NoArgs]
    /\ client = [w \in Workers |-> NoClient]
    /\ req = [w \in Workers |-> NoRequest]
    /\ calls = [w \in Workers |-> 0]
    /\ timedOut = [w \in Workers |-> "none"]
    /\ resp = [w \in Workers |-> NoResponse]
    /\ decoded = [w \in Workers |-> FALSE]
    /\ ret = [w \in Workers |-> NoReturn]
    /\ out = [w \in Workers |-> NoOutput]
    /\ answers = [w \in Workers |-> 0]
    /\ info = [uri |-> "none"]

\* The operation returns r: control goes back to the handler.
Return(w, r) ==
    /\ ret' = [ret EXCEPT ![w] = r]
    /\ pc' = [pc EXCEPT ![w] = "return"]

\* A tool call with arguments drawn from A reaches a free worker.
Invoke(w, A) ==
    /\ pc[w] = "idle"
    /\ \E a \in A : args' = [args EXCEPT ![w] = a]
    /\ pc' = [pc EXCEPT ![w] = "handler"]
    /\ UNCHANGED <<client, req, calls, timedOut, resp, decoded, ret, out,
                   answers, info>>

\* client := NewJiraClient(args.JiraConfig)
HandlerNewClient(w) ==
    /\ pc[w] = "handler"
    /\ client' = [client EXCEPT ![w] = NewJiraClient(args[w].jira_config)]
    /\ pc' = [pc EXCEPT ![w] = "build"]
    /\ UNCHANGED <<args, req, calls, timedOut, resp, decoded, ret, out,
                   answers, info>>

\* URL, payload, http.NewRequest, the auth and Content-Type headers.
PrepareRequest(w) ==
    /\ pc[w] = "build"
    /\ LET r == BuildRequest(client[w], args[w]) IN
       IF NewRequestOK(r.url)
       THEN /\ req' = [req EXCEPT ![w] = r]
            /\ pc' = [pc EXCEPT ![w] = "do"]
            /\ UNCHANGED ret
       ELSE /\ Return(w, Fail(ZeroValue(args[w].tool),
                      Error("failed to create request", 0,
                            "invalid control character in URL")))
            /\ UNCHANGED req
    /\ UNCHANGED <<args, client, calls, timedOut, resp, decoded, out,
                   answers, info>>

\* Mutant of DoFailed: a failed call is tried once more.
DoFailedRetry(w, cause) ==
    IF calls[w] < 2
    THEN pc' = [pc EXCEPT ![w] = "do"] /\ UNCHANGED ret
    ELSE Return(w, Fail(ZeroValue(args[w].tool),
                        Error("failed to send request", 0, cause)))

\* c.httpClient.Do(req) returned an error.
DoFailed(w, cause) ==
    Return(w, Fail(ZeroValue(args[w].tool),
                   Error("failed to send request", 0, cause)))

\* resp, err := c.httpClient.Do(req)
Do(w) ==
    /\ pc[w] = "do"
    /\ calls' = [calls EXCEPT ![w] = @ + 1]
    /\ IF Sendable(req[w].url)
       THEN pc' = [pc EXCEPT ![w] = "connecting"] /\ UNCHANGED ret
       ELSE DoFailed(w, "unsupported protocol scheme or no host")
    /\ UNCHANGED <<args, client, req, timedOut, resp, decoded, out, answers,
                   info>>

\* The connection stands and the request is written.
Connected(w) ==
    /\ pc[w] = "connecting"
    /\ pc' = [pc EXCEPT ![w] = "headers"]
    /\ UNCHANGED <<args, client, req, calls, timedOut, resp, decoded, ret,
                   out, answers, info>>

\* The connection is refused, reset or closed before the response headers.
TransportFailure(w) ==
    /\ pc[w] \in {"connecting", "headers"}
    /\ DoFailed(w, "connection error")
    /\ UNCHANGED <<args, client, req, calls, timedOut, resp, decoded, out,
                   answers, info>>

\* Client.Timeout elapses inside Do: Do returns the error.
TimeoutInDo(w) ==
    /\ pc[w] \in {"connecting", "headers"}
    /\ timedOut' = [timedOut EXCEPT ![w] = pc[w]]
    /\ DoFailed(w, "Client.Timeout exceeded while awaiting headers")
    /\ UNCHANGED <<args, client, req, calls, resp, decoded, out, answers,
                   info>>

\* The upstream answers: Do returns the response, its body still unread.
Respond(w, R) ==
    /\ pc[w] = "headers"
    /\ \E r \in R : resp' = [resp EXCEPT ![w] = r]
    /\ pc' = [pc EXCEPT ![w] = "status"]
    /\ UNCHANGED <<args, client, req, calls, timedOut, decoded, ret, out,
                   answers, info>>

\* if resp.StatusCode != ... { return "", fmt.Errorf(...) }; updateIssue
\* returns args.IssueKey here.
CheckStatus(w) ==
    /\ pc[w] = "status"
    /\ IF ~StatusAccepted(args[w].tool, resp[w].status)
       THEN Return(w, Fail(ZeroValue(args[w].tool),
                           StatusError(args[w].tool, resp[w].status)))
       ELSE IF args[w].tool = "update_issue"
       THEN Return(w, Ok(args[w].issue_key))
       ELSE pc' = [pc EXCEPT ![w] = "body"] /\ UNCHANGED ret
    /\ UNCHANGED <<args, client, req, calls, timedOut, resp, decoded, out,
                   answers, info>>

\* json.NewDecoder(resp.Body).Decode(&result) and what follows it.
Decode(w) ==
    /\ pc[w] = "body"
    /\ decoded' = [decoded EXCEPT ![w] = TRUE]
    /\ Return(w, DecodeBody(args[w].tool, resp[w].body))
    /\ UNCHANGED <<args, client, req, calls, timedOut, resp, out, answers,
                   info>>

\* Client.Timeout elapses while the decoder reads resp.Body: the read fails
\* and Decode returns its error.
TimeoutInBody(w) ==
    /\ pc[w] = "body"
    /\ timedOut' = [timedOut EXCEPT ![w] = "body"]
    /\ decoded' = [decoded EXCEPT ![w] = TRUE]
    /\ Return(w, Fail(ZeroValue(args[w].tool),
                      Error("failed to decode response", 0,
                            "Client.Timeout exceeded while reading body")))
    /\ UNCHANGED <<args, client, req, calls, resp, out, answers, info>>

\* The handler returns the error, or the response built from the value.
HandlerReturn(w) ==
    /\ pc[w] = "return"
    /\ out' = [out EXCEPT ![w] = HandlerResult(args[w].tool, ret[w])]
    /\ answers' = [answers EXCEPT ![w] = @ + 1]
    /\ pc' = [pc EXCEPT ![w] = "done"]
    /\ UNCHANGED <<args, client, req, calls, timedOut, resp, decoded, ret,
                   info>>

\* A read of info://server.
ReadInfo ==
    /\ info' = InfoResource
    /\ UNCHANGED <<pc, args, client, req, calls, timedOut, resp, decoded,
                   ret, out, answers>>

\* The call is over: everything it held is discarded.
Release(w) ==
    /\ pc[w] = "done"
    /\ pc' = [pc EXCEPT ![w] = "idle"]
    /\ args' = [args EXCEPT ![w] = NoArgs]
    /\ client' = [client EXCEPT ![w] = NoClient]
    /\ req' = [req EXCEPT ![w] = NoRequest]
    /\ calls' = [calls EXCEPT ![w] = 0]
    /\ timedOut' = [timedOut EXCEPT ![w] = "none"]
    /\ resp' = [resp EXCEPT ![w] = NoResponse]
    /\ decoded' = [decoded EXCEPT ![w] = FALSE]
    /\ ret' = [ret EXCEPT ![w] = NoReturn]
    /\ out' = [out EXCEPT ![w] = NoOutput]
    /\ answers' = [answers EXCEPT ![w] = 0]
    /\ UNCHANGED info

Step(w, A, R) ==
    \/ Invoke(w, A)
    \/ HandlerNewClient(w)
    \/ PrepareRequest(w)
    \/ Do(w)
    \/ Connected(w)
    \/ TransportFailure(w)
    \/ TimeoutInDo(w)
    \/ Respond(w, R[args[w].tool])
    \/ CheckStatus(w)
    \/ Decode(w)
    \/ TimeoutInBody(w)
    \/ HandlerReturn(w)
    \/ Release(w)

\* One tool call at a time, over every input.
Next == Step(1, ToolArgs, Responses) \/ ReadInfo

Spec == Init /\ [][Next]_vars

\* Tool calls served concurrently, one per worker, over a Cloud and a Data
\* Center configuration with different credentials.
ConcConfigs ==
    { JiraConfig(Http \o <<"j", ".", "A", "T", "L", "A", "S", "S", "I", "A",
                           "N", ".", "N", "E", "T">>,
                 [api_key |-> "tokA", email |-> "a@x.io"]),
      JiraConfig(Http \o <<"j", ".", "c", "o", "r", "p">>,
                 [api_key |-> "tokB", email |-> "b@y.io"]) }

ConcArgs ==
    CreateIssueArgs(ConcConfigs)
        \cup { a \in UpdateIssueArgs(ConcConfigs) :
                   a.summary # "" /\ a.description = "" }

ConcResponses ==
    [tool \in Tools |->
    CASE tool = "create_issue" ->
            { [status |-> 201, body |-> Body(JObj("key" :> JStr("PROJ-7")))],
              [status |-> 400, body |-> NotJSON] }
      [] tool = "update_issue" ->
            { [status |-> 204, body |-> NotJSON] }
      [] tool = "search_issues" -> {}]

NextConc == (\E w \in Workers : Step(w, ConcArgs, ConcResponses)) \/ ReadInfo

SpecConc == Init /\ [][NextConc]_vars

----------------------------------------------------------------------------
(* The claims *)

Built(w) == req[w].method # "none"
Returned(w) == ret[w].st # "none"
Answered(w) == pc[w] = "done"
Received(w) == resp[w].status # 0

\* Two characters that are the same letter in either case.
SameLetter(c, d) ==
    c = d \/ \E k \in 1..Len(UpperCase) :
                 {c, d} = {UpperCase[k], LowerCase[k]}

\* The URL holds ".atlassian.net" somewhere, in any mix of cases.
IsCloudURL(u) ==
    \E i \in 1..Len(u) :
        /\ i + Len(CloudDomain) - 1 <= Len(u)
        /\ \A j \in 1..Len(CloudDomain) : SameLetter(u[i + j - 1], CloudDomain[j])

BasicAuth(cfg) == [scheme |-> "Basic", user |-> cfg.email, secret |-> cfg.api_key]
BearerAuth(cfg) == [scheme |-> "Bearer", user |-> "", secret |-> cfg.api_key]

HasStringKey(body) ==
    /\ body.wf
    /\ body.val.t = "obj"
    /\ "key" \in DOMAIN body.val.o
    /\ body.val.o["key"].t = "str"

\* C2: createIssue returns success with key k exactly when the response has
\* status 201 and its body is read and decodes as a JSON object whose
\* top-level "key" is the string k.  For any other status it returns an error
\* carrying that status and an empty key, and never decodes the body; for a
\* 201 whose body is not JSON, or whose "key" is absent or no string, it
\* returns an error and an empty key.
C2_CreateIssueResult ==
    \A w \in Workers :
        (args[w].tool = "create_issue") =>
            /\ decoded[w] => resp[w].status = 201
            /\ Returned(w) =>
                /\ (ret[w].st = "ok") <=>
                       /\ resp[w].status = 201
                       /\ timedOut[w] = "none"
                       /\ HasStringKey(resp[w].body)
                /\ ret[w].st = "ok" => ret[w].val = resp[w].body.val.o["key"].s
                /\ ret[w].st = "err" => ret[w].val = ""
                /\ (Received(w) /\ resp[w].status # 201) =>
                       /\ ret[w].st = "err"
                       /\ ret[w].err.code = resp[w].status
                       /\ ret[w].err.prefix = "failed to create issue, status"
                       /\ ~decoded[w]

\* createIssue returned the key of a 201 body that holds other members too.
C2_Witness ==
    \E w \in Workers :
        /\ args[w].tool = "create_issue"
        /\ ret[w] = Ok("PROJ-8")
        /\ resp[w].status = 201

\* C3: updateIssue returns success exactly when the upstream status is 200
\* or 204, and then the key it returns is the issueKey argument, whatever the
\* body holds; for every other status it returns an error carrying that
\* status and an empty key.
C3_UpdateIssueResult ==
    \A w \in Workers :
        (args[w].tool = "update_issue" /\ Returned(w)) =>
            /\ (ret[w].st = "ok") <=> resp[w].status \in {200, 204}
            /\ ret[w].st = "ok" => ret[w].val = args[w].issue_key
            /\ (Received(w) /\ resp[w].status \notin {200, 204}) =>
                   /\ ret[w].st = "err"
                   /\ ret[w].val = ""
                   /\ ret[w].err.code = resp[w].status
                   /\ ret[w].err.prefix = "failed to update issue, status"

\* updateIssue returned its own issue key on a 200 whose body names another.
C3_Witness ==
    \E w \in Workers :
        /\ args[w].tool = "update_issue"
        /\ resp[w] = [status |-> 200,
                      body |-> Body(JObj("key" :> JStr("OTHER-9")))]
        /\ ret[w] = Ok("PROJ-1")

\* C4: the PUT body of updateIssue is {"fields": F}, where F holds "summary"
\* exactly when the summary argument is not empty and "description" exactly
\* when the description argument is not empty, each with the argument's value
\* and nothing else; with both empty the request is still sent, F empty.
C4_UpdateIssueBody ==
    \A w \in Workers :
        (args[w].tool = "update_issue") =>
            /\ Built(w) =>
                /\ req[w].method = "PUT"
                /\ req[w].body =
                     CASE args[w].summary = "" /\ args[w].description = "" ->
                            "{\"fields\":{}}"
                       [] args[w].summary = "Fix bug" /\ args[w].description = "" ->
                            "{\"fields\":{\"summary\":\"Fix bug\"}}"
                       [] args[w].summary = "" /\ args[w].description = "a<b" ->
                            "{\"fields\":{\"description\":\"a\\u003cb\"}}"
                       [] args[w].summary = "Fix bug" /\ args[w].description = "a<b" ->
                            "{\"fields\":{\"description\":\"a\\u003cb\",\"summary\":\"Fix bug\"}}"
            /\ Returned(w) =>
                /\ calls[w] = 1 \/ ret[w].err.prefix = "failed to create request"
                /\ ret[w].st = "err" =>
                       ret[w].err.prefix \in
                           {"failed to create request", "failed to send request",
                            "failed to update issue, status"}

\* An update that sets only the summary is on the wire.
C4_Witness ==
    \E w \in Workers :
        /\ args[w].tool = "update_issue"
        /\ args[w].summary # "" /\ args[w].description = ""
        /\ pc[w] = "headers"

\* The array the decoder binds to the result's Issues field: the member of the
\* body's object named "issues" (matched as the decoder matches names).
UpstreamIssuesOf(body) ==
    IF body.wf /\ body.val.t = "obj" /\ HasField(body.val.o, "issues")
       /\ Field(body.val.o, "issues").t = "arr"
    THEN Field(body.val.o, "issues").a
    ELSE <<>>

\* The string at a path of member names of a JSON value, "" when there is none.
StringAt(v, path) ==
    IF v.t # "obj" \/ ~HasField(v.o, path[1]) THEN ""
    ELSE LET m == Field(v.o, path[1]) IN
         IF Len(path) = 1 THEN (IF m.t = "str" THEN m.s ELSE "")
         ELSE IF m.t # "obj" \/ ~HasField(m.o, path[2]) THEN ""
         ELSE LET n == Field(m.o, path[2]) IN IF n.t = "str" THEN n.s ELSE ""

\* The body is a JSON object without an issues member, or with an empty one.
NoIssues(body) ==
    /\ body.wf
    /\ body.val.t = "obj"
    /\ \/ ~HasField(body.val.o, "issues")
       \/ Field(body.val.o, "issues") \in {JNull, JArr(<<>>)}

\* C5: searchIssues succeeds only on status 200; any other status is an error
\* carrying the status and no list.  On success the list has the length and
\* the order of the upstream issues array, its i-th element being the i-th
\* issue's key and fields.summary; a 200 whose body is an object with no
\* issues array, or an empty one, gives a successful empty list.
C5_SearchIssuesResult ==
    \A w \in Workers :
        (args[w].tool = "search_issues" /\ Returned(w)) =>
            /\ ret[w].st = "ok" => resp[w].status = 200
            /\ (Received(w) /\ resp[w].status # 200) =>
                   /\ ret[w].st = "err"
                   /\ ret[w].val = <<>>
                   /\ ret[w].err.code = resp[w].status
                   /\ ret[w].err.prefix = "failed to search issues, status"
            /\ ret[w].st = "ok" =>
                   LET arr == UpstreamIssuesOf(resp[w].body) IN
                   /\ Len(ret[w].val) = Len(arr)
                   /\ \A i \in 1..Len(arr) :
                          ret[w].val[i] =
                              [key |-> StringAt(arr[i], <<"key">>),
                               summary |-> StringAt(arr[i], <<"fields", "summary">>)]
            /\ (resp[w].status = 200 /\ timedOut[w] = "none"
                    /\ NoIssues(resp[w].body)) =>
                   ret[w] = Ok(<<>>)

\* searchIssues returned two different issues in the upstream order.
C5_Witness ==
    \E w \in Workers :
        /\ args[w].tool = "search_issues"
        /\ ret[w] = Ok(<<[key |-> "B-2", summary |-> "a<b"],
                         [key |-> "A-1", summary |-> "S1"]>>)

\* C6 as stated: every tool invocation has issued exactly one outbound HTTP
\* call when it answers.
C6_ExactlyOneCall ==
    \A w \in Workers : Answered(w) => calls[w] = 1

\* C6, amended: a tool invocation issues at most one outbound call before it
\* answers and never a second one: exactly one when the request could be
\* built, none when http.NewRequest refused the URL.  Whatever the outcome of
\* the call it is not retried, and a failed call gives exactly one failed
\* tool response.
C6_AtMostOneCall ==
    \A w \in Workers :
        /\ calls[w] <= 1
        /\ answers[w] <= 1
        /\ answers[w] = 1 <=> Answered(w)
        /\ Returned(w) => (calls[w] = 1 <=> Built(w))
        /\ (Returned(w) /\ ~Built(w)) =>
               ret[w].st = "err" /\ ret[w].err.prefix = "failed to create request"
        /\ (Answered(w) /\ ret[w].st = "err") => out[w].kind = "error"

\* A call that timed out was answered once, with an error, after one call.
C6_Witness ==
    \E w \in Workers :
        /\ Answered(w)
        /\ timedOut[w] = "headers"
        /\ calls[w] = 1
        /\ answers[w] = 1
        /\ out[w].kind = "error"

\* C7: in each handler, when the operation returns an error the handler
\* returns that same error and no response; a response ("Created issue:
\* <key>", "Updated issue: <key>", the JSON text of the list) is produced only
\* when the operation returned no error, and carries the value it returned.
C7_HandlerPropagates ==
    \A w \in Workers :
        Answered(w) =>
            /\ ret[w].st = "err" => out[w] = [kind |-> "error", err |-> ret[w].err]
            /\ out[w].kind = "response" =>
                /\ ret[w].st = "ok"
                /\ args[w].tool = "create_issue" =>
                       out[w].text = "Created issue: " \o ret[w].val
                /\ args[w].tool = "update_issue" =>
                       out[w].text = "Updated issue: " \o ret[w].val
                /\ args[w].tool = "search_issues" =>
                       /\ out[w].text = mustMarshal(IssueList(ret[w].val))
                       /\ ret[w].val = <<>> => out[w].text = "[]"
                       /\ ret[w].val = <<[key |-> "A-1", summary |-> "S1"]>> =>
                              out[w].text = "[{\"key\":\"A-1\",\"summary\":\"S1\"}]"
            /\ out[w].kind \in {"error", "response"}

\* create_issue answered with the error of a 201 whose body held no key.
C7_Witness ==
    \E w \in Workers :
        /\ Answered(w)
        /\ args[w].tool = "create_issue"
        /\ ret[w].st = "err"
        /\ ret[w].err.prefix = "issue key not found in response"
        /\ out[w] = ToolError(ret[w].err)

\* C8: info://server answers every read alike, whatever tool calls came
\* before or run beside it and however they ended: name "Jira MCP Server",
\* version "1.0.0" and the actions create_issue, update_issue, search_issues
\* in that order.
C8_InfoIsConstant ==
    info.uri # "none" =>
        info = [uri |-> "info://server", mimeType |-> "application/json",
                text |-> "{\"actions\":[\"create_issue\",\"update_issue\",\"search_issues\"],\"name\":\"Jira MCP Server\",\"version\":\"1.0.0\"}"]

\* The resource was read, one tool call has failed and another is under way.
C8_Witness ==
    \E w, v \in Workers :
        /\ info.uri # "none"
        /\ Answered(w) /\ out[w].kind = "error"
        /\ pc[v] = "headers"

\* C9: tool calls served concurrently share nothing: the request of a call
\* carries the URL and the credentials of its own arguments only, and two
\* calls with the same arguments build the same request and, given the same
\* upstream outcome, return the same result, whatever else runs beside them.
C9_CallsAreIsolated ==
    \A w \in Workers :
        /\ pc[w] \notin {"idle", "handler"} =>
               client[w].config = args[w].jira_config
        /\ Built(w) =>
               /\ req[w].url.base = args[w].jira_config.url
               /\ req[w].auth.secret = args[w].jira_config.api_key
               /\ req[w].auth.user \in {"", args[w].jira_config.email}
               /\ req[w].url.api =
                      IF IsCloudURL(args[w].jira_config.url)
                      THEN "/rest/api/3" ELSE "/rest/api/2"
        /\ \A v \in Workers :
               (args[v] = args[w]) =>
                   /\ (Built(v) /\ Built(w)) => req[v] = req[w]
                   /\ (Answered(v) /\ Answered(w) /\ resp[v] = resp[w]
                          /\ timedOut[v] = timedOut[w]) =>
                         ret[v] = ret[w] /\ out[v] = out[w]

\* A Cloud call and a Data Center call are on the wire at the same time.
C9_Witness ==
    \E w, v \in Workers :
        /\ pc[w] = "headers" /\ pc[v] = "headers"
        /\ req[w].auth.scheme = "Basic" /\ req[v].auth.scheme = "Bearer"
        /\ req[w].auth.secret # req[v].auth.secret

\* C10, the part a finite run decides: whenever the client's timeout elapsed
\* at any stage of the outbound call, the operation's error is the
\* transport error ("failed to send request").
C10_TimeoutIsTransportError ==
    \A w \in Workers :
        (timedOut[w] # "none" /\ Returned(w)) =>
            ret[w].st = "err" /\ ret[w].err.prefix = "failed to send request"

====
